---- MODULE Spec2Model ----
(***************************************************************************)
(* A model of the CoreCraft backend: the MongoDB data-access layer         *)
(* (app/db/base.py), the repositories (app/models), the auth utilities and *)
(* the HTTP endpoints (app/api/V1/endpoints).                              *)
(*                                                                         *)
(* Python values are modelled as data: a call argument is a record         *)
(* [tp, s, n, docs] (its type name and its content); a document is a       *)
(* function from field names to values; a collection is the sequence of    *)
(* its documents in natural (insertion) order; an exception is its class   *)
(* name, "none" when nothing is raised.                                    *)
(***************************************************************************)
EXTENDS Integers, Sequences, FiniteSets, TLC

VARIABLES
  mongod,     \* the MongoDB instance: collection name -> sequence of documents
  oid,        \* the next ObjectId the driver hands out
  now,        \* the wall clock, in ticks (TicksPerSecond ticks to a second)
  defaults,   \* the schema classes' field defaults, evaluated once at import
  issued,     \* the tokens handed out by /user/login so far
  resp,       \* the last HTTP response (with the request that caused it)
  call,       \* the last direct data-access call and its outcome
  prev,       \* history: mongod as it was before the last request or call
  race        \* two writers in flight, each between two of its database calls

vars == <<mongod, oid, now, defaults, issued, resp, call, prev, race>>

----------------------------------------------------------------------------
(* Bounds of the model *)

TicksPerSecond == 2     \* clock resolution: sub-second instants exist
MaxOid == 3             \* ObjectIds the driver may hand out
MaxTokens == 2          \* tokens /user/login may hand out (one pair)
RaceOids == 4           \* ObjectIds the driver may hand out to racing writers

(* Program constants *)

ACCESS_TOKEN_EXPIRE_MINUTES == 30
REFRESH_TOKEN_EXPIRE_MINUTES == 60 * 24 * 7
JWT_SECRET_KEY == "JWT_SECRET_KEY"
JWT_REFRESH_SECRET_KEY == "JWT_REFRESH_SECRET_KEY"

(* Configuration read from the environment (app/models/base.py 43-45) *)

DB_NAME == "corecraft"
USER_TABLE_NAME == "users"
SUBSCRIPTION_TABLE_NAME == "subscriptions"

----------------------------------------------------------------------------
(* Python values *)

NoneInt == 0 - 1        \* None in a field that otherwise holds an int
NoneStr == "None"       \* None in a field that otherwise holds a str

PyNone == [tp |-> "NoneType", s |-> "", n |-> 0, docs |-> <<>>]
PyStr(x) == [tp |-> "str", s |-> x, n |-> 0, docs |-> <<>>]
PyInt(k) == [tp |-> "int", s |-> "", n |-> k, docs |-> <<>>]
PyBool(b) == [tp |-> "bool", s |-> "", n |-> IF b THEN 1 ELSE 0, docs |-> <<>>]
PyEmptyDict == [tp |-> "dict", s |-> "", n |-> 0, docs |-> <<>>]
\* A dict of fields; the dict without fields is the empty dict.
PyDict(d) == IF DOMAIN d = {} THEN PyEmptyDict ELSE [tp |-> "dict", s |-> "", n |-> 0, docs |-> <<d>>]
PyList(ds) == [tp |-> "list", s |-> "", n |-> 0, docs |-> ds]

\* Python truth value testing: None, "", 0, False, {} and [] are false.
Truthy(a) ==
  CASE a.tp = "NoneType" -> FALSE
    [] a.tp = "str" -> a.s # ""
    [] a.tp \in {"int", "bool"} -> a.n # 0
    [] OTHER -> Len(a.docs) > 0

isinstance(a, tp) == a.tp = tp

----------------------------------------------------------------------------
(* Documents and collections *)

\* dict.update / $set: the fields of upd replace or extend those of doc.
Merge(doc, upd) ==
  [k \in (DOMAIN doc \ DOMAIN upd) \cup DOMAIN upd |->
     IF k \in DOMAIN upd THEN upd[k] ELSE doc[k]]

\* A document matches an equality filter when it has every listed field
\* with the listed value.
Matches(doc, f) == \A k \in DOMAIN f : k \in DOMAIN doc /\ doc[k] = f[k]

find(coll, f) == SelectSeq(coll, LAMBDA d : Matches(d, f))

FirstMatch(coll, f) ==
  IF \E i \in 1..Len(coll) : Matches(coll[i], f)
  THEN CHOOSE i \in 1..Len(coll) :
         Matches(coll[i], f) /\ \A j \in 1..(i - 1) : ~Matches(coll[j], f)
  ELSE 0

RemoveAt(coll, i) == [j \in 1..(Len(coll) - 1) |-> IF j < i THEN coll[j] ELSE coll[j + 1]]

\* dataset.find().sort("user_uuid", DESCENDING).limit(1)[0]["user_uuid"]
MaxUserUuid(coll) ==
  CHOOSE u \in {coll[i].user_uuid : i \in 1..Len(coll)} :
    \A i \in 1..Len(coll) : coll[i].user_uuid <= u

\* The outcome of a data-access call: the exception raised ("none" when it
\* returns), the database and the ObjectId counter afterwards, the documents
\* returned (find_one: one document, or isNone), the write acknowledgement.
Outcome(raised, m, o, ret, isNone, ack) ==
  [raised |-> raised, m |-> m, oid |-> o, ret |-> ret, isNone |-> isNone, ack |-> ack]

Raise(exc, m, o) == Outcome(exc, m, o, <<>>, FALSE, FALSE)

\* dataset.insert_one(doc): the driver adds a fresh _id to a document that has
\* none; the server rejects an _id the collection already holds.
insert_one(m, o, table, doc) ==
  LET d == IF "_id" \in DOMAIN doc THEN doc ELSE Merge(doc, [_id |-> o])
      o1 == IF "_id" \in DOMAIN doc THEN o ELSE o + 1
  IN IF \E i \in 1..Len(m[table]) : m[table][i]._id = d._id
     THEN Raise("DuplicateKeyError", m, o1)
     ELSE Outcome("none", [m EXCEPT ![table] = Append(@, d)], o1, <<d>>, FALSE, TRUE)

RECURSIVE insert_many(_, _, _, _)
insert_many(m, o, table, ds) ==
  IF ds = <<>> THEN Outcome("none", m, o, <<>>, FALSE, TRUE)
  ELSE LET r == insert_one(m, o, table, Head(ds))
       IN IF r.raised # "none" THEN r ELSE insert_many(r.m, r.oid, table, Tail(ds))

----------------------------------------------------------------------------
(* app/db/base.py: DataBase *)

validate(db_name, table_name, data_opt, data, filter_opt, filter, bulk) ==
  IF ~Truthy(db_name) THEN "MissingAttributeError"
  ELSE IF ~isinstance(db_name, "str") THEN "TypeError"
  ELSE IF ~Truthy(table_name) THEN "MissingAttributeError"
  ELSE IF ~isinstance(table_name, "str") THEN "TypeError"
  ELSE IF data_opt /\ ~Truthy(data) THEN "MissingAttributeError"
  ELSE IF data_opt /\ ~(isinstance(data, "dict") \/ isinstance(data, "list")) THEN "TypeError"
  ELSE IF filter_opt /\ ~Truthy(filter) THEN "MissingAttributeError"
  ELSE IF filter_opt /\ ~isinstance(filter, "dict") THEN "TypeError"
  ELSE IF Truthy(bulk) /\ ~isinstance(bulk, "bool") THEN "TypeError"
  ELSE "none"

\* The single-record path of upload once data["user_uuid"] is known to be None.
UploadNextId(m, o, table, d) ==
  IF m[table] = <<>> THEN Raise("IndexError", m, o)              \* limit(1)[0]
  ELSE IF MaxUserUuid(m[table]) = NoneInt THEN Raise("TypeError", m, o)  \* None + 1
  ELSE LET r1 == insert_one(m, o, table,
                            Merge(d, [user_uuid |-> MaxUserUuid(m[table]) + 1]))
       IN IF r1.raised # "none" THEN r1
          \* line 151: data is a dict and now carries the _id just inserted
          ELSE insert_one(r1.m, r1.oid, table, r1.ret[1])

DataBase_upload(m, o, db_name, table_name, data) ==
  LET v == validate(db_name, table_name, TRUE, data, FALSE, PyNone, PyBool(FALSE))
  IN IF v # "none" THEN Raise(v, m, o)
     \* line 142: data["user_uuid"]; a list takes no str index
     ELSE IF isinstance(data, "list") THEN Raise("TypeError", m, o)
     ELSE IF "user_uuid" \notin DOMAIN data.docs[1] THEN Raise("KeyError", m, o)
     ELSE IF data.docs[1].user_uuid = NoneInt
       THEN UploadNextId(m, o, table_name.s, data.docs[1])
     ELSE IF isinstance(data, "dict") THEN insert_one(m, o, table_name.s, data.docs[1])
     ELSE insert_many(m, o, table_name.s, data.docs)

\* A variant of query that consumes what it reads (find_one_and_delete in
\* place of find_one): the reads of this module must tell it from query.
query_consuming(m, o, db_name, table_name, filter, bulk) ==
  LET v == validate(db_name, table_name, FALSE, PyNone, Truthy(filter), filter, bulk)
  IN IF v # "none" THEN Raise(v, m, o)
     ELSE IF ~Truthy(filter) THEN Outcome("none", m, o, <<>>, TRUE, FALSE)
     ELSE LET i == FirstMatch(m[table_name.s], filter.docs[1])
          IN IF i = 0 THEN Outcome("none", m, o, <<>>, TRUE, FALSE)
             ELSE Outcome("none", [m EXCEPT ![table_name.s] = RemoveAt(@, i)], o,
                          <<m[table_name.s][i]>>, FALSE, FALSE)

\* A variant of query that indexes its result (find(filter)[0]) and so
\* raises when a filter matches nothing.
query_indexing(m, o, db_name, table_name, filter, bulk) ==
  LET v == validate(db_name, table_name, FALSE, PyNone, Truthy(filter), filter, bulk)
      found == IF Truthy(filter) THEN find(m[table_name.s], filter.docs[1])
               ELSE m[table_name.s]
  IN IF v # "none" THEN Raise(v, m, o)
     ELSE IF found = <<>> THEN Raise("IndexError", m, o)
     ELSE IF Truthy(bulk) THEN Outcome("none", m, o, found, FALSE, FALSE)
     ELSE Outcome("none", m, o, <<found[1]>>, FALSE, FALSE)

DataBase_query(m, o, db_name, table_name, filter, bulk) ==
  LET v == validate(db_name, table_name, FALSE, PyNone, Truthy(filter), filter, bulk)
      coll == m[table_name.s]
  IN IF v # "none" THEN Raise(v, m, o)
     ELSE IF Truthy(bulk)
       THEN IF Truthy(filter)
              THEN Outcome("none", m, o, find(coll, filter.docs[1]), FALSE, FALSE)
              ELSE Outcome("none", m, o, coll, FALSE, FALSE)
     ELSE IF Truthy(filter)
       THEN LET i == FirstMatch(coll, filter.docs[1])
            IN IF i = 0 THEN Outcome("none", m, o, <<>>, TRUE, FALSE)
               ELSE Outcome("none", m, o, <<coll[i]>>, FALSE, FALSE)
     ELSE IF coll = <<>> THEN Outcome("none", m, o, <<>>, TRUE, FALSE)
     ELSE Outcome("none", m, o, <<coll[1]>>, FALSE, FALSE)

\* datetime.now(pytz.timezone("Asia/Kolkata")).strftime("%Y-%m-%d || %H:%M:%S:%f"):
\* the instant, in that zone, as text of that format.
Stamp(t) == <<"Asia/Kolkata", t>>

\* A variant of update's $set document that carries no timestamp.
UpdateSetUnstamped(user_data, t) == user_data

\* The $set document of update: the caller's user_data, stamped.
UpdateSet(user_data, t) == Merge(user_data, [updated_at |-> Stamp(t)])

\* A variant of update_one that replaces the matched document by the $set
\* document (replace_one in place of update_one).
update_replacing(coll, f, set) ==
  LET i == FirstMatch(coll, f)
  IN IF i = 0 THEN coll ELSE [coll EXCEPT ![i] = Merge([_id |-> @._id], set)]

update_one(coll, f, set) ==
  LET i == FirstMatch(coll, f)
  IN IF i = 0 THEN coll ELSE [coll EXCEPT ![i] = Merge(@, set)]

update_many(coll, f, set) ==
  [i \in 1..Len(coll) |-> IF Matches(coll[i], f) THEN Merge(coll[i], set) ELSE coll[i]]

DataBase_update(m, o, t, db_name, table_name, data, bulk) ==
  LET v == validate(db_name, table_name, TRUE, data, FALSE, PyNone, bulk)
  IN IF v # "none" THEN Raise(v, m, o)
     \* line 210: data.get("user_data")["updated_at"] = ...
     ELSE IF isinstance(data, "list") THEN Raise("AttributeError", m, o)
     ELSE IF "user_data" \notin DOMAIN data.docs[1] THEN Raise("TypeError", m, o)
     ELSE IF "user_uuid" \notin DOMAIN data.docs[1] THEN Raise("KeyError", m, o)
     ELSE LET d == data.docs[1]
              set == UpdateSet(d.user_data, t)
              f == [user_uuid |-> d.user_uuid]
              coll == m[table_name.s]
          IN IF Truthy(bulk)
             THEN Outcome("none", [m EXCEPT ![table_name.s] = update_many(coll, f, set)],
                          o, <<>>, FALSE, TRUE)
             ELSE Outcome("none", [m EXCEPT ![table_name.s] = update_one(coll, f, set)],
                          o, <<>>, FALSE, TRUE)

\* A variant of delete that removes every match (delete_many).
delete_every(coll, f) == SelectSeq(coll, LAMBDA d : ~Matches(d, f))

delete_one(coll, f) ==
  LET i == FirstMatch(coll, f) IN IF i = 0 THEN coll ELSE RemoveAt(coll, i)

DataBase_delete(m, o, db_name, table_name, filter) ==
  LET v == validate(db_name, table_name, FALSE, PyNone, TRUE, filter, PyBool(FALSE))
  IN IF v # "none" THEN Raise(v, m, o)
     ELSE Outcome("none", [m EXCEPT ![table_name.s] = delete_one(@, filter.docs[1])],
                  o, <<>>, FALSE, TRUE)

----------------------------------------------------------------------------
(* The stored data the service starts with.  The collections outlive the   *)
(* process, so a start state holds whatever earlier runs left: no user, one *)
(* user or two, with or without a subscription record for the first user.  *)

\* passlib's bcrypt: the hash carries its salt; verification recomputes it.
bcrypt(password, salt) == <<"$2b$12$", salt, password>>
hash_password(password, salt) == bcrypt(password, salt)
verify_password(password, hashed_password) ==
  bcrypt(password, hashed_password[2]) = hashed_password

UserDoc(id, uuid, name, email, phone, password) ==
  [_id |-> id, user_uuid |-> uuid, full_name |-> name, email |-> email,
   phone_no |-> phone, aadhar_no |-> NoneInt, user_role |-> NoneInt,
   password |-> password, is_active |-> TRUE, is_staff |-> FALSE,
   is_admin |-> FALSE, is_superuser |-> FALSE,
   created_at |-> Stamp(0), updated_at |-> Stamp(0)]

Period(start, end, amount) == [start_date |-> start, end_date |-> end, amount |-> amount]

SubDoc(id, uuid, periods) ==
  [_id |-> id, user_uuid |-> uuid, subscription |-> periods,
   created_at |-> Stamp(0), updated_at |-> Stamp(0)]

SeedUser(i) ==
  IF i = 1 THEN UserDoc(1, 1, "A", "a@x.com", "1", bcrypt("pw1", "s1"))
  ELSE UserDoc(2, 2, "B", "b@x.com", "2", bcrypt("pw2", "s2"))

SeedUsers == {<<>>, <<SeedUser(1)>>, <<SeedUser(1), SeedUser(2)>>}

SeedSubs(users) ==
  {<<>>} \cup {<<SubDoc(Len(users) + 1, 1, <<Period(Stamp(0), Stamp(0), 5)>>)>> :
                 i \in 1..(IF users = <<>> THEN 0 ELSE 1)}

\* Class-level field defaults are evaluated when the schema module is
\* imported (app/schemas/utils.py 23-28, app/schemas/user.py 70,
\* app/schemas/subscription.py 25-30).
Passwords == {"pw1", "pw2"}
Salts == {"s1", "s2"}
GeneratedPasswords == {"tok1", "tok2"}

NoResp == [ep |-> "none", status |-> 0, detail |-> "", exc |-> "none"]

\* A writer: the operation it runs, the database call it is about to make,
\* its arguments and locals, and how it ended.
Writers == {1, 2}
Idle == [op |-> "none", pc |-> "idle", uuid |-> 0, token |-> [key |-> "absent", sub |-> "", exp |-> 0],
         ready |-> FALSE, found |-> 0, doc |-> <<>>, period |-> <<>>, status |-> 0,
         exc |-> "none"]
NoRace == [w |-> [i \in Writers |-> Idle], last |-> 0, lockstep |-> TRUE]
NoCall == [op |-> "none", raised |-> "none"]

Init ==
  /\ \E users \in SeedUsers : \E subs \in SeedSubs(users) :
       /\ mongod = [t \in {USER_TABLE_NAME, SUBSCRIPTION_TABLE_NAME} |->
                      IF t = USER_TABLE_NAME THEN users ELSE subs]
       /\ oid = Len(users) + Len(subs) + 1
  /\ now = 0
  /\ \E p \in GeneratedPasswords :
       defaults = [created_at |-> Stamp(0), updated_at |-> Stamp(0),
                   start_date |-> Stamp(0), end_date |-> Stamp(0), password |-> p]
  /\ issued = {}
  /\ resp = NoResp
  /\ call = NoCall
  /\ prev = mongod
  /\ race = NoRace

----------------------------------------------------------------------------
(* The clock *)

AccessLifetime == ACCESS_TOKEN_EXPIRE_MINUTES * 60      \* seconds
RefreshLifetime == REFRESH_TOKEN_EXPIRE_MINUTES * 60    \* seconds

\* Time passes by one tick, within the first second of an access lifetime.
Tick ==
  /\ (now % (AccessLifetime * TicksPerSecond)) < TicksPerSecond
  /\ now' = now + 1
  /\ UNCHANGED <<mongod, oid, defaults, issued, resp, call, prev, race>>

\* Time passes by a whole access lifetime.
Elapse ==
  /\ now < AccessLifetime * TicksPerSecond
  /\ now' = now + AccessLifetime * TicksPerSecond
  /\ UNCHANGED <<mongod, oid, defaults, issued, resp, call, prev, race>>

----------------------------------------------------------------------------
(* Direct use of the data-access layer.  A call's arguments are all well    *)
(* formed, or one of them is absent, empty or of another type.              *)

GoodDb == PyStr(DB_NAME)
UserTable == {PyStr(USER_TABLE_NAME)}
BadNames == {PyNone, PyStr(""), PyInt(0), PyInt(7)}
BadBulks == {PyInt(1), PyStr("yes")}

NewUser(uuid) == [user_uuid |-> uuid, full_name |-> "C", email |-> "c@x.com",
                  password |-> bcrypt("pw1", "s1"), updated_at |-> Stamp(0)]

UploadDataArgs ==
  {PyDict(NewUser(3)), PyDict(NewUser(NoneInt)),
   PyDict([full_name |-> "C", email |-> "c@x.com"]),
   PyList(<<NewUser(3), NewUser(4)>>),
   PyNone, PyEmptyDict, PyList(<<>>), PyStr("data"), PyInt(0)}

FilterArgs ==
  {PyDict([user_uuid |-> 1]), PyDict([user_uuid |-> 3]), PyDict([email |-> "c@x.com"]),
   PyNone, PyEmptyDict, PyList(<<>>), PyStr("filter"), PyInt(7)}

UserDataArgs == {[full_name |-> "Z", phone_no |-> "9"]}

UpdateDataArgs ==
  {PyDict([user_uuid |-> u, user_data |-> ud]) : u \in {1, 3}, ud \in UserDataArgs}
  \cup {PyDict([user_uuid |-> 1]), PyDict([user_data |-> [full_name |-> "Z"]]),
        PyList(<<[user_uuid |-> 1, user_data |-> [full_name |-> "Z"]]>>),
        PyNone, PyEmptyDict, PyStr("data"), PyInt(0)}

Args(db_name, table_name, data, filter, bulk) ==
  [db_name |-> db_name, table_name |-> table_name, data |-> data, filter |-> filter,
   bulk |-> bulk]

\* The argument lists tried: every payload with good names, and every bad
\* name or bulk flag with a good payload.
ArgLists(tables, payloads, good, isData, bulks) ==
  {Args(GoodDb, t, IF isData THEN p ELSE PyNone, IF isData THEN PyNone ELSE p, b) :
     t \in tables, p \in payloads, b \in bulks}
  \cup {Args(GoodDb, PyStr(USER_TABLE_NAME), IF isData THEN good ELSE PyNone,
             IF isData THEN PyNone ELSE good, b) : b \in IF bulks = {PyBool(FALSE)} THEN {} ELSE BadBulks}
  \cup {Args(x, PyStr(USER_TABLE_NAME), IF isData THEN good ELSE PyNone,
             IF isData THEN PyNone ELSE good, PyBool(FALSE)) : x \in BadNames}
  \cup {Args(GoodDb, x, IF isData THEN good ELSE PyNone,
             IF isData THEN PyNone ELSE good, PyBool(FALSE)) : x \in BadNames}

Called(op, a, r) ==
  [op |-> op, db_name |-> a.db_name, table_name |-> a.table_name, data |-> a.data,
   filter |-> a.filter, bulk |-> a.bulk, raised |-> r.raised, ret |-> r.ret,
   isNone |-> r.isNone, ack |-> r.ack]

Returned(op, a, r) ==
  /\ r.oid <= MaxOid
  /\ mongod' = r.m
  /\ oid' = r.oid
  /\ call' = Called(op, a, r)
  /\ prev' = mongod
  /\ UNCHANGED <<now, defaults, issued, resp, race>>

CallUpload ==
  \E a \in ArgLists(UserTable, UploadDataArgs, PyDict(NewUser(3)), TRUE, {PyBool(FALSE)}) :
    Returned("upload", a, DataBase_upload(mongod, oid, a.db_name, a.table_name, a.data))

CallQuery ==
  \E a \in ArgLists(UserTable, FilterArgs, PyDict([user_uuid |-> 1]), FALSE,
                    {PyBool(FALSE), PyBool(TRUE)}) :
    Returned("query", a,
             DataBase_query(mongod, oid, a.db_name, a.table_name, a.filter, a.bulk))

CallUpdate ==
  \E a \in ArgLists(UserTable, UpdateDataArgs, PyDict([user_uuid |-> 1, user_data |-> [full_name |-> "Z"]]),
                    TRUE, {PyBool(FALSE), PyBool(TRUE)}) :
    Returned("update", a,
             DataBase_update(mongod, oid, now, a.db_name, a.table_name, a.data, a.bulk))

CallDelete ==
  \E a \in ArgLists(UserTable, FilterArgs, PyDict([user_uuid |-> 1]), FALSE, {PyBool(FALSE)}) :
    Returned("delete", a, DataBase_delete(mongod, oid, a.db_name, a.table_name, a.filter))

----------------------------------------------------------------------------
(* app/models/user.py (User) and app/models/base.py (Base, the parent of   *)
(* Subscription).  A method called with a keyword it does not declare      *)
(* raises TypeError before its body runs.                                  *)

User_save(m, o, data) ==
  DataBase_upload(m, o, PyStr(DB_NAME), PyStr(USER_TABLE_NAME), data)

User_get(m, o, kw, value) ==
  IF kw # "user_uuid" THEN Raise("TypeError", m, o)
  ELSE DataBase_query(m, o, PyStr(DB_NAME), PyStr(USER_TABLE_NAME),
                      PyDict([user_uuid |-> value]), PyBool(FALSE))

User_get_all(m, o) ==
  DataBase_query(m, o, PyStr(DB_NAME), PyStr(USER_TABLE_NAME), PyNone, PyBool(TRUE))

User_filter(m, o, filter) ==
  DataBase_query(m, o, PyStr(DB_NAME), PyStr(USER_TABLE_NAME), filter, PyBool(TRUE))

User_update(m, o, t, data) ==
  DataBase_update(m, o, t, PyStr(DB_NAME), PyStr(USER_TABLE_NAME), data, PyBool(FALSE))

User_delete(m, o, kw, value) ==
  IF kw # "filter" THEN Raise("TypeError", m, o)
  ELSE DataBase_delete(m, o, PyStr(DB_NAME), PyStr(USER_TABLE_NAME), value)

Base_save(m, o, table, data) ==
  DataBase_upload(m, o, PyStr(DB_NAME), PyStr(table), data)

Base_get(m, o, table, kw, value) ==
  IF kw # "uuid" THEN Raise("TypeError", m, o)
  ELSE DataBase_query(m, o, PyStr(DB_NAME), PyStr(table),
                      PyDict([user_uuid |-> value]), PyBool(FALSE))

Base_get_all(m, o, table) ==
  DataBase_query(m, o, PyStr(DB_NAME), PyStr(table), PyNone, PyBool(TRUE))

Base_filter(m, o, table, filter) ==
  DataBase_query(m, o, PyStr(DB_NAME), PyStr(table), filter, PyBool(TRUE))

Base_update(m, o, t, table, data) ==
  DataBase_update(m, o, t, PyStr(DB_NAME), PyStr(table), data, PyBool(FALSE))

Base_delete(m, o, table, kw, value) ==
  IF kw # "uuid" THEN Raise("TypeError", m, o)
  ELSE DataBase_delete(m, o, PyStr(DB_NAME), PyStr(table), PyDict([user_uuid |-> value]))

----------------------------------------------------------------------------
(* app/api/V1/endpoints/utils.py: tokens *)

Digits == <<"0", "1", "2", "3", "4", "5", "6", "7", "8", "9">>

\* str(n) of a small non-negative int, and int(s), which raises ValueError
\* (here: NoneInt) on text that is no number.
py_str(n) == Digits[n + 1]
py_int(s) ==
  IF \E i \in 1..Len(Digits) : Digits[i] = s
  THEN (CHOOSE i \in 1..Len(Digits) : Digits[i] = s) - 1
  ELSE NoneInt

\* jose's jwt.encode: the claims, signed under a key.  A datetime exp is
\* stored as whole seconds.
jwt_encode(sub, exp_ticks, key) ==
  [key |-> key, sub |-> sub, exp |-> exp_ticks \div TicksPerSecond]

create_access_token(subject, t) ==
  jwt_encode(py_str(subject), t + AccessLifetime * TicksPerSecond, JWT_SECRET_KEY)

create_refresh_token(subject, t) ==
  jwt_encode(py_str(subject), t + RefreshLifetime * TicksPerSecond, JWT_REFRESH_SECRET_KEY)

\* A variant of jwt.decode that does not verify the signature
\* (options verify_signature False).
jwt_decode_unverified(token, key, t) ==
  IF token.exp < t \div TicksPerSecond THEN "ExpiredSignatureError" ELSE "none"

\* jose's jwt.decode: the signature is verified under the key, then exp is
\* compared with the current time in whole seconds; ExpiredSignatureError
\* is a JWTError.
jwt_decode(token, key, t) ==
  IF token.key # key THEN "JWTError"
  ELSE IF token.exp < t \div TicksPerSecond THEN "ExpiredSignatureError"
  ELSE "none"

JWTErrors == {"JWTError", "ExpiredSignatureError"}

\* What a request may carry as its bearer token besides a token the service
\* issued: nothing, or a JWT signed by somebody else.
AbsentToken == [key |-> "absent", sub |-> "", exp |-> 0]
ForgedToken == [key |-> "forged", sub |-> "1", exp |-> RefreshLifetime]

\* A token is the client's to keep: one the service issued, before this run,
\* to a user whose record has since been removed.
OrphanToken == [key |-> JWT_SECRET_KEY, sub |-> "3", exp |-> AccessLifetime]

\* UserOut(**user_data): the fields UserOut declares; the others are dropped.
UserOutFields == {"full_name", "email", "phone_no", "aadhar_no", "user_role", "user_uuid"}
UserOut(user_data) == [k \in UserOutFields \cap DOMAIN user_data |-> user_data[k]]

Http(status, detail, exc, m, o, data) ==
  [status |-> status, detail |-> detail, exc |-> exc, m |-> m, oid |-> o, data |-> data]

get_current_user(m, o, t, token) ==
  IF token = AbsentToken THEN Http(401, "Not authenticated", "none", m, o, <<>>)
  ELSE IF jwt_decode(token, JWT_SECRET_KEY, t) \in JWTErrors
    THEN Http(403, "Could not validate credentials", "none", m, o, <<>>)
  \* datetime.fromtimestamp(token_data.exp) < datetime.now()
  ELSE IF token.exp * TicksPerSecond < t
    THEN Http(401, "Token expired", "none", m, o, <<>>)
  ELSE IF py_int(token.sub) = NoneInt
    THEN Http(500, "Failed to retrieve user data", "ValueError", m, o, <<>>)
  ELSE LET g == User_get(m, o, "uuid", py_int(token.sub))
       IN IF g.raised # "none"
            THEN Http(500, "Failed to retrieve user data", g.raised, m, o, <<>>)
          ELSE IF g.isNone THEN Http(404, "User not found", "none", m, o, <<>>)
          ELSE Http(200, "", "none", m, o, <<UserOut(g.ret[1])>>)

----------------------------------------------------------------------------
(* app/schemas: what model_dump gives the endpoints *)

Unset == NoneStr        \* a field the request body leaves out

\* UserIn(...).model_dump(exclude_unset=False): every field of UserIn, the
\* unset ones at their class defaults.  UserIn declares no user_uuid.
UserIn_model_dump(body, d) ==
  [created_at |-> d.created_at, updated_at |-> d.updated_at,
   full_name |-> body.full_name, email |-> body.email, phone_no |-> body.phone_no,
   aadhar_no |-> NoneInt, user_role |-> NoneInt,
   password |-> IF body.password = Unset THEN d.password ELSE body.password,
   is_active |-> TRUE, is_staff |-> FALSE, is_admin |-> FALSE, is_superuser |-> FALSE]

\* BaseSubscription(**p).model_dump(exclude_unset=False): the unset fields
\* of a period at their class defaults.
BaseSubscription_model_dump(p, d) ==
  Merge([start_date |-> d.start_date, end_date |-> d.end_date, amount |-> NoneInt], p)

\* SubscriptionIn(...).model_dump(exclude_unset=False)
SubscriptionIn_model_dump(body, d) ==
  [created_at |-> d.created_at, updated_at |-> d.updated_at, user_uuid |-> body.user_uuid,
   subscription |-> [i \in 1..Len(body.subscription) |->
                       BaseSubscription_model_dump(body.subscription[i], d)]]

----------------------------------------------------------------------------
(* app/api/V1/endpoints/user.py *)

\* response_model=UserIn, response_model_exclude={"password"}: the fields
\* UserIn declares, but for the password.
UserInFields ==
  {"created_at", "updated_at", "full_name", "email", "phone_no", "aadhar_no",
   "user_role", "password", "is_active", "is_staff", "is_admin", "is_superuser"}
UserIn_response(user_data) ==
  [k \in (UserInFields \ {"password"}) \cap DOMAIN user_data |-> user_data[k]]

get_user(m, o, user_uuid) ==
  LET g == User_get(m, o, "uuid", user_uuid)
  IN IF g.raised # "none"
       THEN Http(500, "Failed to retrieve user data", g.raised, m, o, <<>>)
     ELSE IF g.isNone THEN Http(404, "User not found", "none", m, o, <<>>)
     ELSE Http(200, "", "none", m, o, <<UserIn_response(g.ret[1])>>)

\* response_model=list[UserOut]
get_users(m, o) ==
  LET r == User_get_all(m, o)
  IN IF r.raised # "none"
       THEN Http(500, "Failed to retrieve user data", r.raised, m, o, <<>>)
     ELSE IF Len(r.ret) = 0 THEN Http(404, "No users found", "none", m, o, <<>>)
     ELSE Http(200, "", "none", m, o, [i \in 1..Len(r.ret) |-> UserOut(r.ret[i])])

\* response_model=List[UserOut]
filter_users(m, o, user_dict) ==
  LET r == User_filter(m, o, PyDict(user_dict))
  IN IF r.raised # "none"
       THEN Http(500, "Failed to retrieve existing user data", r.raised, m, o, <<>>)
     ELSE Http(200, "", "none", m, o, [i \in 1..Len(r.ret) |-> UserOut(r.ret[i])])

\* A variant of lines 142-143 that hashes something other than the
\* submitted password.
HashedBlank(user_dict, salt) == Merge(user_dict, [password |-> hash_password("", salt)])

\* Lines 142-143: the password of user_dict replaced by its hash.
Hashed(user_dict, salt) ==
  Merge(user_dict, [password |-> hash_password(user_dict.password, salt)])

\* The body of register_user from the hashing on (lines 141-159).
RegisterSave(m, o, user_dict, salt) ==
  LET r == User_save(m, o, PyDict(Hashed(user_dict, salt)))
  IN IF r.raised # "none"
       THEN Http(500, "Failed to register user", r.raised, r.m, r.oid, <<>>)
     ELSE IF r.ack
       THEN Http(200, "User registration successful", "none", r.m, r.oid,
                 <<[id |-> r.ret[1].user_uuid, full_name |-> r.ret[1].full_name,
                    phone_no |-> r.ret[1].phone_no]>>)
     ELSE Http(200, "User registration failed", "none", r.m, r.oid, <<>>)

\* A variant of register_user without the pre-check of lines 133-139.
EmailNeverTaken(m, o, user_dict) == FALSE

\* Lines 133-139: the pre-check for a stored user with the same email.
EmailTaken(m, o, user_dict) ==
  /\ user_dict.email \notin {NoneStr, ""}
  /\ Len(User_filter(m, o, PyDict([email |-> user_dict.email])).ret) > 0

\* What register_user hands to user_instance.save (line 144), if it gets there.
RegisterSaved(m, o, d, body, salt) ==
  IF EmailTaken(m, o, UserIn_model_dump(body, d)) THEN <<>>
  ELSE <<Hashed(UserIn_model_dump(body, d), salt)>>

register_user(m, o, d, body, salt) ==
  IF EmailTaken(m, o, UserIn_model_dump(body, d))
  THEN Http(400, "User with this email already exists", "none", m, o, <<>>)
  ELSE RegisterSave(m, o, UserIn_model_dump(body, d), salt)

login_user(m, o, t, username, password) ==
  IF py_int(username) = NoneInt
  THEN Http(500, "Failed to retrieve existing user data", "ValueError", m, o, <<>>)
  ELSE LET f == User_filter(m, o, PyDict([user_uuid |-> py_int(username)]))
       IN IF f.raised # "none"
            THEN Http(500, "Failed to retrieve existing user data", f.raised, m, o, <<>>)
          ELSE IF Len(f.ret) = 0 THEN Http(404, "User not found", "none", m, o, <<>>)
          ELSE IF verify_password(password, f.ret[1].password)
            THEN Http(200, "bearer", "none", m, o,
                      <<create_access_token(f.ret[1].user_uuid, t),
                        create_refresh_token(f.ret[1].user_uuid, t)>>)
          ELSE Http(401, "Invalid credentials", "none", m, o, <<>>)

update_user(m, o, t, user_dict) ==
  LET g == User_get(m, o, "uuid", user_dict.user_uuid)
  IN IF g.raised # "none"
       THEN Http(500, "Failed to retrieve user data", g.raised, m, o, <<>>)
     ELSE IF g.isNone THEN Http(404, "User not found", "none", m, o, <<>>)
     ELSE LET r == User_update(m, o, t, PyDict(user_dict))
          IN IF r.raised # "none"
               THEN Http(500, "Failed to update user", r.raised, r.m, r.oid, <<>>)
             ELSE IF r.ack THEN Http(200, "User update successful", "none", r.m, r.oid, <<>>)
             ELSE Http(200, "User update failed", "none", r.m, r.oid, <<>>)

delete_user(m, o, user_uuid) ==
  LET g == User_get(m, o, "uuid", user_uuid)
  IN IF g.raised # "none"
       THEN Http(500, "Failed to retrieve user data", g.raised, m, o, <<>>)
     ELSE IF g.isNone THEN Http(404, "User not found", "none", m, o, <<>>)
     ELSE LET r == User_delete(m, o, "uuid", user_uuid)
          IN IF r.raised # "none"
               THEN Http(500, "Failed to delete user", r.raised, r.m, r.oid, <<>>)
             ELSE IF r.ack THEN Http(200, "User deletion successful", "none", r.m, r.oid, <<>>)
             ELSE Http(200, "User deletion failed", "none", r.m, r.oid, <<>>)

----------------------------------------------------------------------------
(* app/api/V1/endpoints/subscription.py *)

\* response_model=SubscriptionIn: the fields SubscriptionIn declares.
SubscriptionInFields == {"created_at", "updated_at", "user_uuid", "subscription"}
SubscriptionIn_response(sub) == [k \in SubscriptionInFields \cap DOMAIN sub |-> sub[k]]

get_user_subscription(m, o, user_uuid) ==
  LET g == Base_get(m, o, SUBSCRIPTION_TABLE_NAME, "uuid", user_uuid)
  IN IF g.raised # "none"
       THEN Http(500, "Failed to retrieve subscription data", g.raised, m, o, <<>>)
     ELSE IF g.isNone THEN Http(404, "Subscription data not found", "none", m, o, <<>>)
     ELSE Http(200, "", "none", m, o, <<SubscriptionIn_response(g.ret[1])>>)

get_user_subscriptions(m, o) ==
  LET r == Base_get_all(m, o, SUBSCRIPTION_TABLE_NAME)
  IN IF r.raised # "none"
       THEN Http(500, "Failed to retrieve user subscriptions", r.raised, m, o, <<>>)
     ELSE IF Len(r.ret) = 0 THEN Http(404, "No user subscriptions found", "none", m, o, <<>>)
     ELSE Http(200, "", "none", m, o,
               [i \in 1..Len(r.ret) |-> SubscriptionIn_response(r.ret[i])])

\* Lines 109-135: the user exists; check for a subscription record, insert.
CreateSave(m, o, sub_dict) ==
  IF Len(Base_filter(m, o, SUBSCRIPTION_TABLE_NAME,
                     PyDict([user_uuid |-> sub_dict.user_uuid])).ret) > 0
  THEN Http(400, "User with this user_uuid already has a subscription", "none", m, o, <<>>)
  ELSE LET r == Base_save(m, o, SUBSCRIPTION_TABLE_NAME, PyDict(sub_dict))
       IN IF r.raised # "none"
            THEN Http(500, "Failed to register user subscription", r.raised, r.m, r.oid, <<>>)
          ELSE IF r.ack
            THEN Http(200, "Subscription added successfully", "none", r.m, r.oid, r.ret)
          ELSE Http(200, "Failed to create the subscription", "none", r.m, r.oid, <<>>)

create_user_subscriptions(m, o, sub_dict) ==
  LET g == User_get(m, o, "uuid", sub_dict.user_uuid)
  IN IF g.raised # "none"
       THEN Http(500, "Failed to retrieve user data", g.raised, m, o, <<>>)
     ELSE IF g.isNone THEN Http(404, "User not found", "none", m, o, <<>>)
     ELSE CreateSave(m, o, sub_dict)

\* Lines 167-186: a record exists; append the new period, write the list back.
AppendPeriod(m, o, t, existing, sub_dict) ==
  LET data == [user_uuid |-> sub_dict.user_uuid,
               user_data |-> [subscription |->
                                Append(existing.subscription, sub_dict.user_data)]]
      r == Base_update(m, o, t, SUBSCRIPTION_TABLE_NAME, PyDict(data))
  IN IF r.raised # "none"
       THEN Http(500, "Failed to update subscription", r.raised, r.m, r.oid, <<>>)
     ELSE IF r.ack
       THEN Http(200, "Subscription updated successfully", "none", r.m, r.oid, <<>>)
     ELSE Http(200, "Subscription update failed", "none", r.m, r.oid, <<>>)

\* Line 194: except Exception catches every HTTPException raised inside the
\* try block, the nested endpoint's included, and answers 500.
Rewrap(r) ==
  IF r.status = 200 THEN r
  ELSE Http(500, "Failed to retrieve user data", "HTTPException", r.m, r.oid, <<>>)

update_user_subscriptions(m, o, t, d, sub_dict) ==
  LET g == Base_get(m, o, SUBSCRIPTION_TABLE_NAME, "uuid", sub_dict.user_uuid)
  IN IF g.raised # "none"
       THEN Http(500, "Failed to retrieve user data", g.raised, m, o, <<>>)
     ELSE IF ~g.isNone THEN Rewrap(AppendPeriod(m, o, t, g.ret[1], sub_dict))
     ELSE Rewrap(create_user_subscriptions(m, o,
            SubscriptionIn_model_dump([user_uuid |-> sub_dict.user_uuid,
                                       subscription |-> <<sub_dict.user_data>>], d)))

----------------------------------------------------------------------------
(* The HTTP service: one request at a time, each answered before the next *)

Emails == {"a@x.com", "c@x.com", NoneStr}
Uuids == {1, 3}
Usernames == {"1", "3", "abc"}
RegisterBodies ==
  {[full_name |-> "C", email |-> e, phone_no |-> "3", password |-> pw] :
     e \in Emails, pw \in {"pw1", Unset}}
\* UserSearch(...).model_dump(exclude_unset=True): the criteria the body sets,
\* none when the body is {}.
UserSearchBodies == {[email |-> "a@x.com"], [user_uuid |-> 3], <<>>}
UserUpdateBodies ==
  {[user_uuid |-> u, user_data |-> ud] : u \in {1, 3}, ud \in UserDataArgs}
PeriodBodies == {[amount |-> 7], Period(Stamp(1), Stamp(2), 9)}
SubscriptionBodies == {[user_uuid |-> u, subscription |-> <<p>>] : u \in Uuids, p \in PeriodBodies}
SubscriptionUpdateBodies == {[user_uuid |-> u, user_data |-> p] : u \in Uuids, p \in PeriodBodies}

Tokens == issued \cup {AbsentToken, ForgedToken, OrphanToken}

\* A variant of the dependency that lets the endpoint body run whatever
\* get_current_user made of the token.
Unprotected(auth, body) == body

\* Depends(get_current_user): the endpoint body runs only when the
\* dependency returns a user.
Protected(auth, body) == IF auth.status # 200 THEN auth ELSE body

\* An endpoint that declares no dependency on get_current_user.
NoAuth == [status |-> 0, data |-> <<>>]

\* The response, with the request that caused it: its token, whether the
\* token's exp had passed, what get_current_user made of the token, and what
\* the endpoint handed to the user repository's save.
Respond(ep, token, req, auth, saved, r) ==
  /\ r.oid <= MaxOid
  /\ mongod' = r.m
  /\ oid' = r.oid
  /\ resp' = [ep |-> ep, status |-> r.status, detail |-> r.detail, exc |-> r.exc,
              token |-> token, late |-> token.exp * TicksPerSecond < now,
              auth |-> auth.status, user |-> auth.data, saved |-> saved,
              req |-> req, data |-> r.data]
  /\ prev' = mongod
  /\ UNCHANGED <<now, defaults, call, race>>

Guarded(ep, token, req, auth, body) ==
  /\ Respond(ep, token, req, auth, <<>>, Protected(auth, body))
  /\ UNCHANGED issued

Register ==
  \E body \in RegisterBodies, salt \in Salts :
    /\ Respond("register_user", AbsentToken, body, NoAuth,
               RegisterSaved(mongod, oid, defaults, body, salt),
               register_user(mongod, oid, defaults, body, salt))
    /\ UNCHANGED issued

Login ==
  \E username \in Usernames, password \in Passwords :
    LET r == login_user(mongod, oid, now, username, password)
    IN /\ Respond("login_user", AbsentToken,
                  [username |-> username, password |-> password], NoAuth, <<>>, r)
       /\ issued' = issued \cup {r.data[i] : i \in 1..Len(r.data)}
       /\ Cardinality(issued') <= MaxTokens

GetUser ==
  \E token \in Tokens, user_uuid \in Uuids :
    Guarded("get_user", token, [user_uuid |-> user_uuid],
            get_current_user(mongod, oid, now, token),
            get_user(mongod, oid, user_uuid))

GetUsers ==
  \E token \in Tokens :
    Guarded("get_users", token, [all |-> TRUE],
            get_current_user(mongod, oid, now, token),
            get_users(mongod, oid))

FilterUsers ==
  \E token \in Tokens, body \in UserSearchBodies :
    Guarded("filter_users", token, body,
            get_current_user(mongod, oid, now, token),
            filter_users(mongod, oid, body))

UpdateUser ==
  \E token \in Tokens, body \in UserUpdateBodies :
    Guarded("update_user", token, body,
            get_current_user(mongod, oid, now, token),
            update_user(mongod, oid, now, body))

DeleteUser ==
  \E token \in Tokens, user_uuid \in Uuids :
    Guarded("delete_user", token, [user_uuid |-> user_uuid],
            get_current_user(mongod, oid, now, token),
            delete_user(mongod, oid, user_uuid))

GetSubscription ==
  \E token \in Tokens, user_uuid \in Uuids :
    Guarded("get_user_subscription", token, [user_uuid |-> user_uuid],
            get_current_user(mongod, oid, now, token),
            get_user_subscription(mongod, oid, user_uuid))

GetSubscriptions ==
  \E token \in Tokens :
    Guarded("get_user_subscriptions", token, [all |-> TRUE],
            get_current_user(mongod, oid, now, token),
            get_user_subscriptions(mongod, oid))

CreateSubscription ==
  \E token \in Tokens, body \in SubscriptionBodies :
    Guarded("create_user_subscriptions", token, body,
            get_current_user(mongod, oid, now, token),
            create_user_subscriptions(mongod, oid,
                                      SubscriptionIn_model_dump(body, defaults)))

UpdateSubscription ==
  \E token \in Tokens, body \in SubscriptionUpdateBodies :
    Guarded("update_user_subscriptions", token, body,
            get_current_user(mongod, oid, now, token),
            update_user_subscriptions(mongod, oid, now, defaults, body))

Next ==
  \/ Register \/ Login \/ GetUser \/ GetUsers \/ FilterUsers \/ UpdateUser \/ DeleteUser
  \/ GetSubscription \/ GetSubscriptions \/ CreateSubscription \/ UpdateSubscription
  \/ Tick \/ Elapse

Spec == Init /\ [][Next]_vars

\* The repositories' get(user_uuid): User.get and Base.get (of Subscription),
\* each called with the parameter it declares.
CallGet ==
  \E table \in {USER_TABLE_NAME, SUBSCRIPTION_TABLE_NAME}, user_uuid \in Uuids :
    Returned("get",
             Args(GoodDb, PyStr(table), PyNone, PyDict([user_uuid |-> user_uuid]),
                  PyBool(FALSE)),
             IF table = USER_TABLE_NAME
             THEN User_get(mongod, oid, "user_uuid", user_uuid)
             ELSE Base_get(mongod, oid, table, "uuid", user_uuid))

DalNext == CallUpload \/ CallQuery \/ CallUpdate \/ CallDelete \/ CallGet \/ Tick

DalInit == Init /\ defaults.password = "tok1"

DalSpec == DalInit /\ [][DalNext]_vars

----------------------------------------------------------------------------
(* Properties.  resp and call describe the last request or call; prev is    *)
(* the database as that request or call found it.                           *)

Users(m) == m[USER_TABLE_NAME]
Subs(m) == m[SUBSCRIPTION_TABLE_NAME]
UserUuids(m) == {Users(m)[i].user_uuid : i \in 1..Len(Users(m))}
StoredEmails(m) == {Users(m)[i].email : i \in 1..Len(Users(m))}
SubscribedUuids(m) == {Subs(m)[i].user_uuid : i \in 1..Len(Subs(m))}

ProtectedEndpoints ==
  {"get_user", "get_users", "filter_users", "update_user", "delete_user",
   "get_user_subscription", "get_user_subscriptions",
   "create_user_subscriptions", "update_user_subscriptions"}

\* The last request went to a token-protected endpoint and carried an access
\* token, not past its exp, whose subject is the user_uuid of a stored user.
LoggedIn ==
  /\ resp.ep \in ProtectedEndpoints
  /\ resp.token.key = JWT_SECRET_KEY
  /\ ~resp.late
  /\ py_int(resp.token.sub) \in UserUuids(prev)

\* C1: POST /user/register/ with a valid payload whose email is that of no
\* stored user answers with the success envelope and writes exactly one new
\* user record, whose user_uuid is greater than every user_uuid the
\* collection held before the call.
C1_RegisterAddsOneUser ==
  (/\ resp.ep = "register_user"
   /\ resp.req.email # NoneStr
   /\ resp.req.email \notin StoredEmails(prev)) =>
    /\ resp.status = 200
    /\ resp.detail = "User registration successful"
    /\ Len(Users(mongod)) = Len(Users(prev)) + 1
    /\ SubSeq(Users(mongod), 1, Len(Users(prev))) = Users(prev)
    /\ \A u \in UserUuids(prev) : Users(mongod)[Len(Users(mongod))].user_uuid > u
    /\ Subs(mongod) = Subs(prev)

\* C2: POST /user/register/ with the email of a stored user is rejected with
\* a conflict error (400 or 409) and leaves the collections as they were.
C2_DuplicateEmailRejected ==
  (resp.ep = "register_user" /\ resp.req.email \in StoredEmails(prev)) =>
    /\ resp.status \in {400, 409}
    /\ mongod = prev

C2_DuplicateEmailTried ==
  /\ resp.ep = "register_user"
  /\ resp.req.email \in StoredEmails(prev)
  /\ resp.status = 400
  /\ resp.detail = "User with this email already exists"

\* C3: for a stored user u, get_current_user given an unexpired token made by
\* create_access_token(u.user_uuid) returns u's record, not an error.
C3_ValidTokenAuthenticates ==
  LoggedIn =>
    /\ resp.auth = 200
    /\ \E i \in 1..Len(Users(prev)) :
         /\ Users(prev)[i].user_uuid = py_int(resp.token.sub)
         /\ resp.user = <<UserOut(Users(prev)[i])>>

\* C4: a correctly signed access token whose exp has elapsed is answered
\* 401 'Token expired', never 403 'Could not validate credentials'.
C4_ExpiredTokenIs401 ==
  (resp.ep \in ProtectedEndpoints /\ resp.token.key = JWT_SECRET_KEY /\ resp.late) =>
    /\ resp.status = 401
    /\ resp.detail = "Token expired"

\* C5: GET /user/{user_uuid} by an authenticated caller for a user_uuid no
\* stored user has answers 404 'User not found', carries no exception text,
\* and leaves the user collection unchanged.
C5_UnknownUserIs404 ==
  (LoggedIn /\ resp.ep = "get_user" /\ resp.req.user_uuid \notin UserUuids(prev)) =>
    /\ resp.status = 404
    /\ resp.detail = "User not found"
    /\ resp.exc = "none"
    /\ Users(mongod) = Users(prev)

\* C6: POST /user/subscription/ for a stored user without a subscription
\* creates a record with a one-element period sequence, and every acknowledged
\* PATCH /user/subscription/ for a user with a record appends the new period
\* last, the earlier periods keeping their values and order.
C6_CreateThenAppend ==
  /\ (/\ LoggedIn
      /\ resp.ep = "create_user_subscriptions"
      /\ resp.req.user_uuid \in UserUuids(prev)
      /\ resp.req.user_uuid \notin SubscribedUuids(prev)) =>
       /\ resp.status = 200
       /\ Len(Subs(mongod)) = Len(Subs(prev)) + 1
       /\ Subs(mongod)[Len(Subs(mongod))].user_uuid = resp.req.user_uuid
       /\ Len(Subs(mongod)[Len(Subs(mongod))].subscription) = 1
  /\ (/\ resp.ep = "update_user_subscriptions"
      /\ resp.status = 200
      /\ resp.req.user_uuid \in SubscribedUuids(prev)) =>
       /\ Len(Subs(mongod)) = Len(Subs(prev))
       /\ \A i \in 1..Len(Subs(prev)) :
            IF Subs(prev)[i].user_uuid # resp.req.user_uuid
            THEN Subs(mongod)[i] = Subs(prev)[i]
            ELSE /\ Len(Subs(mongod)[i].subscription) = Len(Subs(prev)[i].subscription) + 1
                 /\ SubSeq(Subs(mongod)[i].subscription, 1, Len(Subs(prev)[i].subscription))
                      = Subs(prev)[i].subscription

\* An update of one record: of the collection before, only the first record
\* with data's user_uuid differs after; on it the fields of user_data have
\* the given values, and the fields outside user_data and exempt keep theirs.
ChangesOnly(before, after, data, exempt) ==
  LET i == FirstMatch(before, [user_uuid |-> data.user_uuid])
  IN /\ Len(after) = Len(before)
     /\ \A j \in 1..Len(before) :
          IF j # i THEN after[j] = before[j]
          ELSE /\ DOMAIN after[j] \subseteq DOMAIN before[j] \cup DOMAIN data.user_data \cup exempt
               /\ \A k \in DOMAIN data.user_data \ exempt : after[j][k] = data.user_data[k]
               /\ \A k \in DOMAIN before[j] \ (DOMAIN data.user_data \cup exempt) :
                    k \in DOMAIN after[j] /\ after[j][k] = before[j][k]

\* C7, as stated: an update that lists a subset of fields changes exactly
\* those fields of the record matched by user_uuid; every other stored field
\* of it, and every other record, keeps its value.
C7_OnlyListedFieldsChange ==
  (call.op = "update" /\ call.raised = "none" /\ ~Truthy(call.bulk)) =>
    ChangesOnly(Users(prev), Users(mongod), call.data.docs[1], {})

\* C7, amended: a DataBase.update that lists a subset of fields changes
\* exactly those fields and updated_at, which it stamps with the time of the
\* call, on the record matched by user_uuid; every other stored field of it,
\* and every other record, keeps its value.  (A step that sets call and
\* leaves the clock alone is the call itself.)
C7_ListedFieldsAndStampChange ==
  [][(call'.op = "update" /\ now' = now /\ call'.raised = "none" /\ ~Truthy(call'.bulk)) =>
       /\ ChangesOnly(Users(mongod), Users(mongod'), call'.data.docs[1], {"updated_at"})
       /\ \A j \in 1..Len(Users(mongod')) :
            j = FirstMatch(Users(mongod), [user_uuid |-> call'.data.docs[1].user_uuid]) =>
              Users(mongod')[j].updated_at = Stamp(now)
       /\ Subs(mongod') = Subs(mongod)]_vars

C7_SubsetUpdated ==
  /\ call.op = "update"
  /\ call.raised = "none"
  /\ ~Truthy(call.bulk)
  /\ \E i \in 1..Len(Users(prev)) :
       /\ Users(prev)[i].user_uuid = call.data.docs[1].user_uuid
       /\ Users(prev)[i].full_name = "A"
       /\ Users(mongod)[i].full_name = "Z"
       /\ Users(mongod)[i].email = Users(prev)[i].email
       /\ Users(mongod)[i].updated_at # Users(prev)[i].updated_at

\* C8: a repository get(user_uuid) never modifies a collection, and a get
\* that follows a get for the same user_uuid of the same repository, with no
\* write in between, returns the same data.  (A step that sets call and
\* leaves the clock alone is the call itself.)
C8_GetIsIdempotentAndReadOnly ==
  [][(call'.op = "get" /\ now' = now) =>
       /\ mongod' = mongod
       /\ (call.op = "get" /\ call.table_name = call'.table_name
                           /\ call.filter = call'.filter) =>
            /\ call'.raised = call.raised
            /\ call'.isNone = call.isNone
            /\ call'.ret = call.ret]_vars

C8_GetFoundRecord ==
  /\ call.op = "get"
  /\ call.raised = "none"
  /\ ~call.isNone
  /\ call.ret # <<>>
  /\ call.ret[1].user_uuid = call.filter.docs[1].user_uuid

\* An argument that was not given, and one given with a type the operation
\* does not take.
Absent(a) == a.tp = "NoneType"
WrongType(a, types) == a.tp \notin (types \cup {"NoneType"})

\* C9: upload, query, update and delete fail with MissingAttributeError when
\* a required argument (database name, collection name, payload, filter) is
\* absent and with TypeError when it is present but of the wrong type, in
\* both cases leaving the collections unchanged.
C9_ValidatorErrors ==
  call.op \in {"upload", "query", "update", "delete"} =>
    LET takesData == call.op \in {"upload", "update"}
        dataTypes == IF call.op = "upload" THEN {"dict", "list"} ELSE {"dict"}
        absent == \/ Absent(call.db_name)
                  \/ Absent(call.table_name)
                  \/ takesData /\ Absent(call.data)
                  \/ call.op = "delete" /\ Absent(call.filter)
        wrong == \/ WrongType(call.db_name, {"str"})
                 \/ WrongType(call.table_name, {"str"})
                 \/ takesData /\ WrongType(call.data, dataTypes)
                 \/ ~takesData /\ WrongType(call.filter, {"dict"})
    IN /\ absent => (call.raised = "MissingAttributeError" /\ mongod = prev)
       /\ (~absent /\ wrong) => (call.raised = "TypeError" /\ mongod = prev)

\* C10: upload with a non-empty list of records inserts every record of the
\* list, in order, and returns the write result without raising.
C10_UploadListInsertsAll ==
  (call.op = "upload" /\ isinstance(call.data, "list") /\ Truthy(call.data)) =>
    /\ call.raised = "none"
    /\ call.ack
    /\ Len(Users(mongod)) = Len(Users(prev)) + Len(call.data.docs)
    /\ SubSeq(Users(mongod), 1, Len(Users(prev))) = Users(prev)
    /\ \A i \in 1..Len(call.data.docs) :
         Matches(Users(mongod)[Len(Users(prev)) + i], call.data.docs[i])

\* C11: upload of a single record whose user_uuid is None, on a collection
\* that holds a record, adds exactly one record, whose user_uuid is the
\* previous maximum plus one, and returns its acknowledgement without raising.
C11_UploadAssignsNextId ==
  (/\ call.op = "upload"
   /\ call.db_name = GoodDb
   /\ call.table_name = PyStr(USER_TABLE_NAME)
   /\ isinstance(call.data, "dict")
   /\ Truthy(call.data)
   /\ "user_uuid" \in DOMAIN call.data.docs[1]
   /\ call.data.docs[1].user_uuid = NoneInt
   /\ Users(prev) # <<>>) =>
    /\ call.raised = "none"
    /\ call.ack
    /\ Len(Users(mongod)) = Len(Users(prev)) + 1
    /\ SubSeq(Users(mongod), 1, Len(Users(prev))) = Users(prev)
    /\ Users(mongod)[Len(Users(mongod))].user_uuid = MaxUserUuid(Users(prev)) + 1

\* C12: delete with a filter that matches k >= 1 records removes exactly one
\* of the matching records and leaves every other record as it was; with
\* k = 0 the collection is unchanged; in neither case is an error raised.
C12_DeleteRemovesOne ==
  (/\ call.op = "delete"
   /\ call.db_name = GoodDb
   /\ call.table_name = PyStr(USER_TABLE_NAME)
   /\ isinstance(call.filter, "dict")
   /\ Truthy(call.filter)) =>
    LET f == call.filter.docs[1]
        k == Len(find(Users(prev), f))
    IN /\ call.raised = "none"
       /\ Subs(mongod) = Subs(prev)
       /\ IF k = 0 THEN Users(mongod) = Users(prev)
          ELSE /\ Len(find(Users(mongod), f)) = k - 1
               /\ \E i \in 1..Len(Users(prev)) :
                    /\ Matches(Users(prev)[i], f)
                    /\ Users(mongod) = RemoveAt(Users(prev), i)

C12_DeletedOneOfTwo ==
  /\ call.op = "delete"
  /\ call.raised = "none"
  /\ Len(find(Users(prev), call.filter.docs[1])) = 2
  /\ Len(find(Users(mongod), call.filter.docs[1])) = 1
  /\ Len(Users(mongod)) = Len(Users(prev)) - 1

\* C13: a query whose filter matches no record returns an absent result
\* (None for a single lookup, an empty result for bulk) and raises nothing.
C13_NotFoundIsAValue ==
  (/\ call.op = "query"
   /\ call.db_name = GoodDb
   /\ call.table_name = PyStr(USER_TABLE_NAME)
   /\ isinstance(call.filter, "dict")
   /\ Truthy(call.filter)
   /\ isinstance(call.bulk, "bool")
   /\ find(Users(prev), call.filter.docs[1]) = <<>>) =>
    /\ call.raised = "none"
    /\ call.ret = <<>>
    /\ call.isNone = ~Truthy(call.bulk)
    /\ mongod = prev

C13_NothingFound ==
  /\ call.op = "query"
  /\ call.raised = "none"
  /\ Truthy(call.filter)
  /\ Users(prev) # <<>>
  /\ find(Users(prev), call.filter.docs[1]) = <<>>
  /\ call.isNone

\* C14: DELETE /user/delete/{user_uuid} by an authenticated caller for a
\* stored user removes that user's record and nothing else: the other user
\* records and the subscription collection are as they were.
C14_DeleteUserOnly ==
  (/\ LoggedIn
   /\ resp.ep = "delete_user"
   /\ resp.req.user_uuid \in UserUuids(prev)) =>
    /\ resp.status = 200
    /\ resp.detail = "User deletion successful"
    /\ Users(mongod) = SelectSeq(Users(prev), LAMBDA d : d.user_uuid # resp.req.user_uuid)
    /\ Subs(mongod) = Subs(prev)

UserEndpoints ==
  {"get_user", "get_users", "filter_users", "register_user", "update_user", "delete_user"}

\* The password a registration request submits: the body's, or the class
\* default when the body has none.
Submitted(body) == IF body.password = Unset THEN defaults.password ELSE body.password

HashesOf(password) == {hash_password(password, salt) : salt \in Salts}

\* C15: the password of every user record that registration writes, and of
\* every record it hands to the repository to write, is the hash of the
\* submitted password; every stored user record holds a hash; and no response
\* of the get, list, filter, register, update and delete user endpoints
\* carries a password.
C15_PasswordHashedAndHidden ==
  /\ resp.ep = "register_user" =>
       /\ \A i \in 1..Len(resp.saved) :
            resp.saved[i].password \in HashesOf(Submitted(resp.req))
       /\ \A i \in (Len(Users(prev)) + 1)..Len(Users(mongod)) :
            Users(mongod)[i].password \in HashesOf(Submitted(resp.req))
  /\ \A i \in 1..Len(Users(mongod)) :
       \E p \in Passwords \cup GeneratedPasswords : Users(mongod)[i].password \in HashesOf(p)
  /\ resp.ep \in UserEndpoints =>
       \A i \in 1..Len(resp.data) : "password" \notin DOMAIN resp.data[i]

C15_RegistrationHashed ==
  /\ resp.ep = "register_user"
  /\ resp.req.password = "pw1"
  /\ resp.saved # <<>>
  /\ resp.saved[1].password = hash_password("pw1", "s2")

\* C16: there is at most one subscription record per user_uuid, and a POST
\* /user/subscription/ by an authenticated caller for a user_uuid that has a
\* subscription record is rejected with 400 and writes nothing.
C16_OneSubscriptionPerUser ==
  /\ \A i, j \in 1..Len(Subs(mongod)) :
       Subs(mongod)[i].user_uuid = Subs(mongod)[j].user_uuid => i = j
  /\ (/\ LoggedIn
      /\ resp.ep = "create_user_subscriptions"
      /\ resp.req.user_uuid \in SubscribedUuids(prev)) =>
       /\ resp.status = 400
       /\ mongod = prev

\* C17: POST /user/subscription/ by an authenticated caller for a user_uuid
\* no stored user has answers 404 'User not found' and writes no
\* subscription record.
C17_SubscriptionForUnknownUserIs404 ==
  (/\ LoggedIn
   /\ resp.ep = "create_user_subscriptions"
   /\ resp.req.user_uuid \notin UserUuids(prev)) =>
    /\ resp.status = 404
    /\ resp.detail = "User not found"
    /\ Subs(mongod) = Subs(prev)

----------------------------------------------------------------------------
(* Two writers whose handlers interleave at database-call boundaries: each   *)
(* step of a writer runs its code up to and including its next database     *)
(* call.                                                                    *)

Done(w, status, exc) == [w EXCEPT !.pc = "done", !.status = status, !.exc = exc]

Stepped(w, m, o) == [w |-> w, m |-> m, oid |-> o]

\* upload(data) with data["user_uuid"] None (src/app/db/base.py 142-152):
\* find the maximum, insert, insert again.
upload_step(w, m, o) ==
  LET coll == m[USER_TABLE_NAME]
  IN CASE w.pc = "start" ->
            IF coll = <<>> THEN Stepped(Done(w, 0, "IndexError"), m, o)
            ELSE Stepped([w EXCEPT !.pc = "insert", !.found = MaxUserUuid(coll)], m, o)
       [] w.pc = "insert" ->
            LET r == insert_one(m, o, USER_TABLE_NAME,
                                Merge(NewUser(NoneInt), [user_uuid |-> w.found + 1]))
            IN IF r.raised # "none" THEN Stepped(Done(w, 0, r.raised), r.m, r.oid)
               ELSE Stepped([w EXCEPT !.pc = "reinsert", !.doc = r.ret], r.m, r.oid)
       [] OTHER ->
            LET r == insert_one(m, o, USER_TABLE_NAME, w.doc[1])
            IN Stepped(Done(w, 0, r.raised), r.m, r.oid)

\* POST /user/subscription/ (src/app/api/V1/endpoints/subscription.py 74-135
\* behind get_current_user): authenticate, look the user up, check for a
\* subscription record, insert.
post_step(w, m, o, t, d) ==
  CASE w.pc = "start" ->
         LET auth == get_current_user(m, o, t, w.token)
         IN IF auth.status # 200 THEN Stepped(Done(w, auth.status, auth.exc), m, o)
            ELSE Stepped([w EXCEPT !.pc = "lookup"], m, o)
    [] w.pc = "lookup" ->
         LET g == User_get(m, o, "uuid", w.uuid)
         IN IF g.raised # "none" THEN Stepped(Done(w, 500, g.raised), m, o)
            ELSE IF g.isNone THEN Stepped(Done(w, 404, "none"), m, o)
            ELSE Stepped([w EXCEPT !.pc = "check"], m, o)
    [] w.pc = "check" ->
         IF Len(Base_filter(m, o, SUBSCRIPTION_TABLE_NAME,
                            PyDict([user_uuid |-> w.uuid])).ret) > 0
         THEN Stepped(Done(w, 400, "none"), m, o)
         ELSE Stepped([w EXCEPT !.pc = "save"], m, o)
    [] OTHER ->
         LET r == Base_save(m, o, SUBSCRIPTION_TABLE_NAME,
                            PyDict(SubscriptionIn_model_dump(
                                     [user_uuid |-> w.uuid, subscription |-> <<[amount |-> 7]>>], d)))
         IN Stepped(Done(w, IF r.raised # "none" THEN 500 ELSE 200, r.raised), r.m, r.oid)

\* The handler function update_user_subscriptions
\* (src/app/api/V1/endpoints/subscription.py 183-197), run for a request the
\* dependency has let through: read the user's subscription record, then
\* write its period list back with the new period appended.  Without a
\* record it calls create_user_subscriptions, whose answer it rewraps.
patch_step(w, m, o, t, d) ==
  LET sub_dict == [user_uuid |-> w.uuid, user_data |-> w.period]
  IN CASE w.pc = "get" ->
            LET g == Base_get(m, o, SUBSCRIPTION_TABLE_NAME, "uuid", w.uuid)
            IN IF g.raised # "none" THEN Stepped(Done(w, 500, g.raised), m, o)
               ELSE IF ~g.isNone THEN Stepped([w EXCEPT !.pc = "update", !.doc = g.ret], m, o)
               ELSE LET r == Rewrap(create_user_subscriptions(m, o,
                                 SubscriptionIn_model_dump(
                                   [user_uuid |-> w.uuid, subscription |-> <<w.period>>], d)))
                    IN Stepped(Done(w, r.status, r.exc), r.m, r.oid)
       [] OTHER ->
            LET r == Rewrap(AppendPeriod(m, o, t, w.doc[1], sub_dict))
            IN Stepped(Done(w, r.status, r.exc), r.m, r.oid)

\* A request or call arrives at an idle writer.  ready: the case the race
\* is about holds on arrival (POST: the user is stored and has no
\* subscription record; upload: the collection holds a record).
ArrivePost(i) ==
  \E token \in Tokens, uuid \in Uuids :
    /\ race.w[i].pc = "idle"
    /\ race' = [race EXCEPT !.w[i] =
                  [Idle EXCEPT !.op = "post", !.pc = "start", !.uuid = uuid, !.token = token,
                               !.ready = /\ uuid \in {mongod[USER_TABLE_NAME][k].user_uuid :
                                                        k \in 1..Len(mongod[USER_TABLE_NAME])}
                                         /\ uuid \notin {mongod[SUBSCRIPTION_TABLE_NAME][k].user_uuid :
                                                           k \in 1..Len(mongod[SUBSCRIPTION_TABLE_NAME])}]]
    /\ UNCHANGED <<mongod, oid, now, defaults, issued, resp, call, prev>>

ArriveUpload(i) ==
  /\ race.w[i].pc = "idle"
  /\ race' = [race EXCEPT !.w[i] =
                [Idle EXCEPT !.op = "upload", !.pc = "start",
                             !.ready = mongod[USER_TABLE_NAME] # <<>>]]
  /\ UNCHANGED <<mongod, oid, now, defaults, issued, resp, call, prev>>

\* ready: the user has a subscription record on arrival.
ArrivePatch(i) ==
  \E uuid \in Uuids, p \in PeriodBodies :
    /\ race.w[i].pc = "idle"
    /\ race' = [race EXCEPT !.w[i] =
                  [Idle EXCEPT !.op = "patch", !.pc = "get", !.uuid = uuid, !.period = p,
                               !.ready = uuid \in {mongod[SUBSCRIPTION_TABLE_NAME][k].user_uuid :
                                                      k \in 1..Len(mongod[SUBSCRIPTION_TABLE_NAME])}]]
    /\ UNCHANGED <<mongod, oid, now, defaults, issued, resp, call, prev>>

\* A writer runs to just after its next database call.
Step(i) ==
  LET w == race.w[i]
      r == IF w.op = "upload" THEN upload_step(w, mongod, oid)
           ELSE IF w.op = "patch" THEN patch_step(w, mongod, oid, now, defaults)
           ELSE post_step(w, mongod, oid, now, defaults)
  IN /\ w.pc \notin {"idle", "done"}
     /\ r.oid <= RaceOids
     /\ mongod' = r.m
     /\ oid' = r.oid
     /\ race' = [race EXCEPT !.w[i] = r.w, !.last = i,
                             !.lockstep = race.lockstep /\ race.last # i]
     /\ UNCHANGED <<now, defaults, issued, resp, call, prev>>

RaceNext ==
  Login \/ \E i \in Writers : ArrivePost(i) \/ ArriveUpload(i) \/ ArrivePatch(i) \/ Step(i)

RaceInit == Init /\ defaults.password = "tok1"

RaceSpec == RaceInit /\ [][RaceNext]_vars

BothDone(op) == \A i \in Writers : race.w[i].pc = "done" /\ race.w[i].op = op /\ race.w[i].ready

\* C18: when two writers interleave at database-call boundaries, two POST
\* /user/subscription/ requests by authenticated callers for one stored user
\* without a subscription record leave two subscription records for that
\* user_uuid, and two uploads of a record without user_uuid leave two user
\* records with one user_uuid.  (lockstep: the writers took turns, call by
\* call, so each made its check before the other's insert.)
C18_RacesDuplicate ==
  /\ (/\ race.lockstep
      /\ BothDone("post")
      /\ race.w[1].uuid = race.w[2].uuid
      /\ \A i \in Writers :
           /\ race.w[i].token.key = JWT_SECRET_KEY
           /\ py_int(race.w[i].token.sub) \in UserUuids(mongod)) =>
       Cardinality({k \in 1..Len(Subs(mongod)) :
                      Subs(mongod)[k].user_uuid = race.w[1].uuid}) = 2
  /\ (race.lockstep /\ BothDone("upload")) =>
       \E j, k \in 1..Len(Users(mongod)) :
         j # k /\ Users(mongod)[j].user_uuid = Users(mongod)[k].user_uuid

\* C19: PATCH /user/subscription/ by an authenticated caller for a stored
\* user that has no subscription record answers 404 and creates no
\* subscription record.
C19_PatchWithoutSubscriptionIs404 ==
  (/\ LoggedIn
   /\ resp.ep = "update_user_subscriptions"
   /\ resp.req.user_uuid \in UserUuids(prev)
   /\ resp.req.user_uuid \notin SubscribedUuids(prev)) =>
    /\ resp.status = 404
    /\ Subs(mongod) = Subs(prev)

\* C20: POST /user/login returns an access/refresh token pair exactly when a
\* user with the submitted user_uuid is stored and the submitted password is
\* the one stored, hashed, for that user; it answers 404 when no such user is
\* stored, 401 when the password differs and 400 when the username is no
\* number; it never changes the stored data.
C20_LoginOutcomes ==
  resp.ep = "login_user" =>
    LET u == py_int(resp.req.username)
        i == FirstMatch(Users(prev), [user_uuid |-> u])
    IN /\ mongod = prev
       /\ IF u = NoneInt THEN resp.status = 400 /\ resp.data = <<>>
          ELSE IF i = 0 THEN resp.status = 404 /\ resp.data = <<>>
          ELSE IF Users(prev)[i].password \in HashesOf(resp.req.password)
            THEN /\ resp.status = 200
                 /\ Len(resp.data) = 2
                 /\ resp.data[1].key = JWT_SECRET_KEY
                 /\ resp.data[2].key = JWT_REFRESH_SECRET_KEY
                 /\ \A k \in 1..2 : resp.data[k].sub = resp.req.username
          ELSE resp.status = 401 /\ resp.data = <<>>

\* The last request was a registration that left out the password and got
\* as far as handing a record to the repository.
DefaultedRegistration(r) ==
  /\ r.ep = "register_user"
  /\ r.req.password = Unset
  /\ r.saved # <<>>

\* C21: a registration whose payload omits password gets a default password
\* generated for that registration: of two registrations that both omit it,
\* the second is not given the password the first was given.
C21_DefaultPasswordPerRegistration ==
  [][(DefaultedRegistration(resp) /\ DefaultedRegistration(resp')) =>
       ~\E p \in GeneratedPasswords :
          /\ verify_password(p, resp.saved[1].password)
          /\ verify_password(p, resp'.saved[1].password)]_vars

\* C22: PATCH /user/subscription/ by an authenticated caller for a user_uuid
\* that has neither a user record nor a subscription record answers 404
\* 'User not found', the status the nested creation step raises, and writes
\* nothing.
C22_PatchForUnknownUserIs404 ==
  (/\ LoggedIn
   /\ resp.ep = "update_user_subscriptions"
   /\ resp.req.user_uuid \notin UserUuids(prev)
   /\ resp.req.user_uuid \notin SubscribedUuids(prev)) =>
    /\ resp.status = 404
    /\ resp.detail = "User not found"
    /\ mongod = prev

\* C23: the created_at and updated_at of a record registered without
\* explicit timestamps are taken when the request's schema object is
\* constructed, so neither is earlier than the start of the request that
\* created the record (and records of requests handled at different times
\* differ in them).  (A step that sets resp and leaves the clock alone is the
\* request itself, handled at the instant now.)
C23_TimestampsTakenPerRequest ==
  [][(resp'.ep = "register_user" /\ now' = now /\ resp'.saved # <<>>) =>
       /\ resp'.saved[1].created_at[2] >= now
       /\ resp'.saved[1].updated_at[2] >= now]_vars

\* C24: POST /users/filter/ by an authenticated caller returns exactly the
\* stored users whose fields equal every criterion the request sets, and
\* every stored user when the request sets none, without a validation error;
\* it changes nothing.
C24_FilterReturnsMatches ==
  (LoggedIn /\ resp.ep = "filter_users") =>
    /\ resp.status = 200
    /\ resp.data = [i \in 1..Len(find(Users(prev), resp.req)) |->
                      UserOut(find(Users(prev), resp.req)[i])]
    /\ DOMAIN resp.req = {} => Len(resp.data) = Len(Users(prev))
    /\ mongod = prev

----------------------------------------------------------------------------
(* The user repository's update used directly, with what update_user hands *)
(* it (src/app/api/V1/endpoints/user.py 230, 246): the dump of a UserUpdate, *)
(* a user_uuid and the BaseUser fields the body sets.                       *)

BaseUserFields == {"full_name", "email", "phone_no", "aadhar_no", "user_role"}

UserUpdateDumps ==
  {[user_uuid |-> u, user_data |-> ud] :
     u \in {1, 3},
     ud \in {[email |-> "b@x.com"], [email |-> "c@x.com"],
             [full_name |-> "Z", phone_no |-> "9"], [aadhar_no |-> 5, user_role |-> 2]}}

CallUserUpdate ==
  \E d \in UserUpdateDumps :
    Returned("User.update",
             Args(GoodDb, PyStr(USER_TABLE_NAME), PyDict(d), PyNone, PyBool(FALSE)),
             User_update(mongod, oid, now, PyDict(d)))

RepoNext == CallUserUpdate \/ Tick

RepoSpec == DalInit /\ [][RepoNext]_vars

\* No two stored user records hold the same email, None apart.
EmailsUnique(m) ==
  \A i, j \in 1..Len(Users(m)) :
    (Users(m)[i].email = Users(m)[j].email /\ Users(m)[i].email # NoneStr) => i = j

C26_RefreshTokenRejected ==
  (resp.ep \in ProtectedEndpoints /\ resp.token.key = JWT_REFRESH_SECRET_KEY) =>
    /\ resp.auth = 403
    /\ resp.status = 403
    /\ resp.detail = "Could not validate credentials"
    /\ resp.data = <<>>
    /\ mongod = prev

C26_RefreshTokenPresented ==
  /\ resp.ep = "delete_user"
  /\ resp.token \in issued
  /\ resp.token = create_refresh_token(1, 0)
  /\ resp.req.user_uuid \in UserUuids(prev)
  /\ ~resp.late
  /\ resp.status = 403
  /\ Users(mongod) = Users(prev)

Unauthenticated ==
  \/ resp.token = AbsentToken
  \/ resp.token.key # JWT_SECRET_KEY
  \/ resp.late
  \/ py_int(resp.token.sub) \notin UserUuids(prev)

\* C28: no token-protected endpoint (user get, list, filter, update, delete;
\* subscription get, list, create, patch) reads or changes stored entities
\* for a request whose bearer token is missing, malformed, badly signed,
\* expired, or names a user_uuid without a user record: the answer is the
\* failure of get_current_user, the endpoint body does not run, and both
\* collections are as they were.
C28_NoAccessWithoutAuthentication ==
  (resp.ep \in ProtectedEndpoints /\ Unauthenticated) =>
    /\ resp.auth \notin {0, 200}
    /\ resp.status = resp.auth
    /\ resp.user = <<>>
    /\ resp.data = <<>>
    /\ mongod = prev

C28_ExpiredTokenOnDelete ==
  /\ resp.ep = "delete_user"
  /\ resp.token \in issued
  /\ resp.token.key = JWT_SECRET_KEY
  /\ resp.late
  /\ resp.req.user_uuid \in UserUuids(prev)
  /\ resp.auth # 200
  /\ Users(mongod) = Users(prev)

\* C29: once a user's record is gone, every request to a token-protected
\* endpoint that bears an access token issued to that user_uuid, the token
\* not past its exp and no user with that user_uuid stored, is answered 404
\* 'User not found' by get_current_user, and changes nothing.
C29_TokenOfRemovedUserIs404 ==
  (/\ resp.ep \in ProtectedEndpoints
   /\ resp.token.key = JWT_SECRET_KEY
   /\ ~resp.late
   /\ py_int(resp.token.sub) \notin UserUuids(prev)) =>
    /\ resp.auth = 404
    /\ resp.status = 404
    /\ resp.detail = "User not found"
    /\ mongod = prev

\* C30: the update of a user, as PATCH /user/update/ makes it, never changes
\* the user_uuid, password, created_at, is_active, is_staff, is_admin or
\* is_superuser of any user record: it writes only fields of BaseUser and
\* updated_at, only on the record matched by user_uuid, and leaves every
\* other record and the subscriptions as they were.
C30_UpdateWritesBaseUserFieldsOnly ==
  call.op = "User.update" =>
    LET before == Users(prev)
        after == Users(mongod)
        i == FirstMatch(before, [user_uuid |-> call.data.docs[1].user_uuid])
        writable == BaseUserFields \cup {"updated_at"}
    IN /\ Len(after) = Len(before)
       /\ Subs(mongod) = Subs(prev)
       /\ \A j \in 1..Len(before) :
            IF j # i THEN after[j] = before[j]
            ELSE /\ DOMAIN after[j] \subseteq DOMAIN before[j] \cup writable
                 /\ \A k \in DOMAIN before[j] \ writable :
                      k \in DOMAIN after[j] /\ after[j][k] = before[j][k]

C30_EmailUpdated ==
  /\ call.op = "User.update"
  /\ call.raised = "none"
  /\ Len(Users(prev)) = 2
  /\ \E i \in 1..Len(Users(prev)) :
       /\ Users(prev)[i].user_uuid = call.data.docs[1].user_uuid
       /\ Users(prev)[i].email = "a@x.com"
       /\ Users(mongod)[i].email = "c@x.com"
       /\ Users(mongod)[i].updated_at # Users(prev)[i].updated_at
       /\ Users(mongod)[i].password = bcrypt("pw1", "s1")
       /\ Users(mongod)[i].user_uuid = 1
       /\ Users(mongod)[i].created_at = Stamp(0)
       /\ Users(mongod)[i].is_active

====
